---- MODULE Spec2Model ----
(***************************************************************************)
(* Model of collect.py: the row loop of main(), the candidate search, the  *)
(* image download and the image validation, with the output directory as   *)
(* state.  Strings are sequences of tokens; the token " " is whitespace.    *)
(***************************************************************************)
EXTENDS Integers, Sequences, FiniteSets, TLC

VARIABLES csv, overwrite, image_file, pos, pc, title, image_name,
          candidates, idx, downloaded, disk, disk0, out, rowLog, netCalls,
          touched, outcome, paused, exitStatus, run, prevEnd, prevOverwrite,
          fetched, writer, payload

vars == <<csv, overwrite, image_file, pos, pc, title, image_name,
          candidates, idx, downloaded, disk, disk0, out, rowLog, netCalls,
          touched, outcome, paused, exitStatus, run, prevEnd, prevOverwrite,
          fetched, writer, payload>>

(* ------------------------------ bounds --------------------------------- *)

\* number of lines of the CSV body
NumLines == 2
\* longest candidate list a search returns in the driver specification
MaxCands == 3
\* longest candidate list a search returns in the restart specification
MaxCandsRestart == 2
\* number of runs of the program over the same directory
MaxRuns == 2
\* longest candidate list a search returns in the cap specification
MaxCandsCap == 11
\* longest results array of a search response in the resolver specification
MaxResults == 2

(* --------------------------- program constants ------------------------- *)

\* candidates[:10]
CandidateCap == 10

\* network calls of a search that returns: the token page, the search request
SearchCalls == 2

(* ------------------------------ strings -------------------------------- *)

WS == " "

RECURSIVE LStrip(_)
LStrip(s) == IF s # <<>> /\ Head(s) = WS THEN LStrip(Tail(s)) ELSE s

RECURSIVE RStrip(_)
RStrip(s) ==
    IF s # <<>> /\ s[Len(s)] = WS THEN RStrip(SubSeq(s, 1, Len(s) - 1)) ELSE s

\* str.strip()
Strip(s) == RStrip(LStrip(s))

(* ------------------------------ the CSV -------------------------------- *)

\* a field value of a row dictionary: a string, or None
Str(s) == [none |-> FALSE, s |-> s]
None == [none |-> TRUE, s |-> <<>>]

NameA == <<"a", ".jpg">>
NameB == <<"b", ".png">>
FileNames == {NameA, NameB}

\* the lines of the CSV body, each a sequence of fields (header: title,imageFile)
Lines ==
    { << <<"tea", WS>>, <<WS, "a", ".jpg">> >>,   \* values that need stripping
      << <<"mug">>, NameB >>,
      << <<WS>>, NameA >>,                       \* whitespace-only title
      << <<"tea">>, <<>> >>,                     \* empty imageFile
      << <<"tea">> >>,                           \* short row: imageFile missing
      << >> }                                    \* blank line

RECURSIVE Seqs(_, _)
Seqs(S, n) ==
    IF n = 0 THEN {<<>>}
    ELSE {Append(q, x) : q \in Seqs(S, n - 1), x \in S}

\* csv.DictReader: a blank line yields no row; a field the line lacks is None
DictRow(line) ==
    [title |-> IF Len(line) >= 1 THEN Str(line[1]) ELSE None,
     imageFile |-> IF Len(line) >= 2 THEN Str(line[2]) ELSE None]

RECURSIVE iter_products(_)
iter_products(lines) ==
    IF lines = <<>> THEN <<>>
    ELSE IF Head(lines) = <<>> THEN iter_products(Tail(lines))
    ELSE <<DictRow(Head(lines))>> \o iter_products(Tail(lines))

Rows == iter_products(csv)

(* ------------------------------ the files ------------------------------ *)

\* the format names of the image library: what a file decodes as (img.format)
\* and what img.save accepts as a target
Formats == {"JPEG", "PNG", "TIFF"}

\* content of a path of the output directory
\* kind: how the bytes got there; fmt: the format they decode as ("NONE": they
\* do not decode); ok: the validator has accepted exactly these bytes
Absent == [kind |-> "absent", fmt |-> "NONE", ok |-> FALSE]
PreExisting == [kind |-> "pre", fmt |-> "NONE", ok |-> FALSE]
Partial == [kind |-> "partial", fmt |-> "NONE", ok |-> FALSE]
Fetched(f) == [kind |-> "fetched", fmt |-> f, ok |-> FALSE]
Accepted(c) == [c EXCEPT !.ok = TRUE]
Reencoded(f) == [kind |-> "converted", fmt |-> f, ok |-> TRUE]

\* the body is written to one fixed path, whatever the row
WriteFixedPath(d, name, c) == [d EXCEPT ![NameA] = c]

\* dest.open("wb") and what is written through it: the path holds c
Write(d, name, c) == [d EXCEPT ![name] = c]

\* the deletion forgotten
UnlinkNothing(d, name) == d

\* dest_path.unlink(missing_ok=True)
Unlink(d, name) == [d EXCEPT ![name] = Absent]

\* Path.exists()
Exists(d, name) == d[name].kind # "absent"

\* image_path.suffix.upper().replace(".", ""), then JPG -> JPEG
SuffixUpper(name) ==
    IF name = <<>> THEN ""
    ELSE CASE name[Len(name)] = ".jpg" -> "JPG"
           [] name[Len(name)] = ".JPG" -> "JPG"
           [] name[Len(name)] = ".jpeg" -> "JPEG"
           [] name[Len(name)] = ".png" -> "PNG"
           [] name[Len(name)] = ".tif" -> "TIF"
           [] OTHER -> ""

\* the JPG spelling left as it is
ExpectedFormatNoAlias(name) == SuffixUpper(name)

ExpectedFormat(name) ==
    IF SuffixUpper(name) = "JPG" THEN "JPEG" ELSE SuffixUpper(name)

(* ------------------------------ the log -------------------------------- *)

Line(text, stream) == [text |-> text, stream |-> stream]

SkipMissing == Line("Skipping row with missing title/imageFile", "stderr")
SkipExisting == Line("Skip existing", "stdout")
NoImage == Line("No image found", "stderr")
\* the success line sent to the diagnostic stream
DownloadedToStderr == Line("Downloaded", "stderr")

Downloaded == Line("Downloaded", "stdout")

InvalidNext == Line("Invalid image, trying next candidate", "stderr")
RetryNext == Line("Retry next image", "stderr")
FailedBlocked == Line("Failed (all candidates blocked)", "stderr")
FailedExc == Line("Failed (exc)", "stderr")
InvalidFile == Line("Invalid image file", "stderr")
WarnConvert == Line("Warning: converting", "stderr")
Converted == Line("Converted", "stderr")
Traceback == Line("Traceback", "stderr")

(* --------------------------- pure functions ---------------------------- *)

\* not title or not image_name
IsBlankRow(t, n) == t = <<>> \/ n = <<>>

\* the filter ignored
FilteredOutNever(flt, n) == FALSE

\* args.image_file and image_name != args.image_file
FilteredOut(flt, n) == ~flt.none /\ flt.s # <<>> /\ n # flt.s

\* the existence test inverted
SkipsMissing(d, n, ow) == ~Exists(d, n) /\ ~ow

\* the overwrite flag inverted
SkipsExistingOnOverwrite(d, n, ow) == Exists(d, n) /\ ow

\* dest_path.exists() and not args.overwrite
SkipsExisting(d, n, ow) == Exists(d, n) /\ ~ow

Min(a, b) == IF a <= b THEN a ELSE b

\* the failure line printed whether or not a candidate was downloaded
LoopEndLinesAlways(dl) == <<FailedBlocked>>

\* if not downloaded: print Failed (all candidates blocked)
LoopEndLines(dl) == IF ~dl THEN <<FailedBlocked>> ELSE <<>>

\* the slice forgotten: every candidate is attempted
AttemptsAll(c) == c

\* candidates[:10]
Attempts(c) == SubSeq(c, 1, Min(Len(c), CandidateCap))

\* validate_and_convert_image on content c at a path named name; saveOk: the
\* re-encoding does not raise.  Result: the verdict, the content left at the
\* path and the lines printed.
validate_and_convert_image(c, name, saveOk) ==
    IF c.fmt \notin Formats
    THEN [valid |-> FALSE, content |-> c, lines |-> <<InvalidFile>>]
    ELSE IF c.fmt = ExpectedFormat(name)
    THEN [valid |-> TRUE, content |-> Accepted(c), lines |-> <<>>]
    ELSE IF ExpectedFormat(name) \notin Formats
    THEN [valid |-> FALSE, content |-> c,
          lines |-> <<WarnConvert, InvalidFile>>]
    ELSE IF saveOk
    THEN [valid |-> TRUE, content |-> Reencoded(ExpectedFormat(name)),
          lines |-> <<WarnConvert, Converted>>]
    ELSE [valid |-> FALSE, content |-> Partial,
          lines |-> <<WarnConvert, InvalidFile>>]

(* ------------------------- the search response ------------------------ *)

\* a field of a result entry: the key is absent, or its value is null or a
\* string; a string is a URL number, 0 for the empty string
Missing == [k |-> "absent", u |-> 0]
Null == [k |-> "null", u |-> 0]
EmptyStr == [k |-> "str", u |-> 0]
Url(i) == [k |-> "str", u |-> i]

\* if image_url: / if thumb_url:
Truthy(f) == f.k = "str" /\ f.u # 0

\* the decoded response: "results" absent, null, or a list of entries
NoResponse == [k |-> "none", items |-> <<>>]
ResultsAbsent == [k |-> "absent", items |-> <<>>]
ResultsNull == [k |-> "null", items |-> <<>>]
ResultsList(items) == [k |-> "list", items |-> items]

\* data.get("results") or []
ResultsOf(p) == IF p.k = "list" THEN p.items ELSE <<>>

\* the thumbnail appended before the image
RECURSIVE CollectThumbFirst(_)
CollectThumbFirst(items) ==
    IF items = <<>> THEN <<>>
    ELSE (IF Truthy(Head(items).thumbnail)
          THEN <<Head(items).thumbnail.u>> ELSE <<>>)
         \o (IF Truthy(Head(items).image)
             THEN <<Head(items).image.u>> ELSE <<>>)
         \o CollectThumbFirst(Tail(items))

\* lines 52-59: per entry, the image URL and then the thumbnail URL
RECURSIVE Collect(_)
Collect(items) ==
    IF items = <<>> THEN <<>>
    ELSE (IF Truthy(Head(items).image)
          THEN <<Head(items).image.u>> ELSE <<>>)
         \o (IF Truthy(Head(items).thumbnail)
             THEN <<Head(items).thumbnail.u>> ELSE <<>>)
         \o Collect(Tail(items))

\* lines 50-60: what search_image_candidates returns for a decoded response
search_image_candidates(p) == Collect(ResultsOf(p))

\* a response of n entries, each with an image URL only
PlainPayload(n) ==
    ResultsList([i \in 1..n |-> [image |-> Url(i), thumbnail |-> Missing]])

\* the responses of the resolver specification
ImageFields == {Missing, Null, EmptyStr, Url(1), Url(3)}
ThumbFields == {Missing, Null, EmptyStr, Url(2), Url(4)}
Entries == [image : ImageFields, thumbnail : ThumbFields]
Payloads ==
    {ResultsAbsent, ResultsNull}
    \cup UNION {{ResultsList(q) : q \in Seqs(Entries, n)} : n \in 0..MaxResults}

(* ------------------------------ the state ------------------------------ *)

\* --image-file: unset, or one file name
FilterChoices == {None, Str(NameA)}

Running == {"loop", "search", "fetch", "copy", "validate", "sleep"}
Ended == {"exited", "crashed", "killed"}

\* the state of a process that has parsed its arguments and created images_dir
Start(lines, ow, flt, d) ==
    /\ csv = lines
    /\ overwrite = ow
    /\ image_file = flt
    /\ disk = d
    /\ disk0 = d
    /\ pos = 0
    /\ pc = "loop"
    /\ title = <<>>
    /\ image_name = <<>>
    /\ candidates = <<>>
    /\ idx = 0
    /\ downloaded = FALSE
    /\ out = <<>>
    /\ rowLog = <<>>
    /\ netCalls = 0
    /\ touched = {}
    /\ outcome = "none"
    /\ paused = FALSE
    /\ exitStatus = <<>>
    /\ run = 1
    /\ prevEnd = "none"
    /\ prevOverwrite = FALSE
    /\ fetched = <<>>
    /\ writer = 0
    /\ payload = NoResponse

Init ==
    \E lines \in Seqs(Lines, NumLines), ow \in BOOLEAN, flt \in FilterChoices,
       d \in [FileNames -> {Absent, PreExisting}] :
        Start(lines, ow, flt, d)

(* ------------------------------ the driver ----------------------------- *)

\* an exception nothing catches leaves main(): traceback, exit status 1
Crash ==
    /\ pc' = "crashed"
    /\ exitStatus' = <<1>>
    /\ out' = <<Traceback>>

\* the row reaches no search: log what is said and go on with the next row
SkipRow(why, lines) ==
    /\ pc' = "loop"
    /\ outcome' = why
    /\ out' = lines
    /\ rowLog' = lines
    /\ exitStatus' = exitStatus

\* lines 132-146: read the next row and decide whether to search for it
NextRow ==
    /\ pc = "loop"
    /\ pos < Len(Rows)
    /\ pos' = pos + 1
    /\ netCalls' = 0
    /\ touched' = {}
    /\ paused' = FALSE
    /\ fetched' = <<>>
    /\ writer' = 0
    /\ LET row == Rows[pos + 1]
           t == Strip(row.title.s)
           n == Strip(row.imageFile.s)
       IN  IF row.title.none
           THEN /\ Crash
                /\ outcome' = "none"
                /\ rowLog' = <<>>
                /\ UNCHANGED <<title, image_name>>
           ELSE IF row.imageFile.none
           THEN /\ Crash
                /\ outcome' = "none"
                /\ rowLog' = <<>>
                /\ title' = t
                /\ UNCHANGED image_name
           ELSE /\ title' = t
                /\ image_name' = n
                /\ IF IsBlankRow(t, n)
                   THEN SkipRow("skip_blank", <<SkipMissing>>)
                   ELSE IF FilteredOut(image_file, n)
                   THEN SkipRow("skip_filter", <<>>)
                   ELSE IF SkipsExisting(disk, n, overwrite)
                   THEN SkipRow("skip_existing", <<SkipExisting>>)
                   ELSE /\ pc' = "search"
                        /\ outcome' = "pending"
                        /\ out' = <<>>
                        /\ rowLog' = <<>>
                        /\ exitStatus' = exitStatus
    /\ UNCHANGED <<csv, overwrite, image_file, candidates, idx, downloaded,
                   disk, disk0, run, prevEnd, prevOverwrite, payload>>

\* line 175: the rows are exhausted
LoopEnd ==
    /\ pc = "loop"
    /\ pos = Len(Rows)
    /\ pc' = "exited"
    /\ exitStatus' = <<0>>
    /\ UNCHANGED <<csv, overwrite, image_file, pos, title, image_name,
                   candidates, idx, downloaded, disk, disk0, out, rowLog,
                   netCalls, touched, outcome, paused, run, prevEnd,
                   prevOverwrite,
                   fetched, writer, payload>>

\* outcomes of search_image_candidates other than a candidate list:
\* the network calls made (1: token page, 2: token page and search request)
\* and whether the exception raised is one line 171 catches
SearchFailures ==
    { [why |-> "vqd_neterr", calls |-> 1, caught |-> FALSE],    \* URLError
      [why |-> "no_token", calls |-> 1, caught |-> TRUE],       \* RuntimeError
      [why |-> "query_neterr", calls |-> 2, caught |-> FALSE],  \* URLError
      [why |-> "bad_json", calls |-> 2, caught |-> TRUE],       \* JSONDecodeError
      [why |-> "not_object", calls |-> 2, caught |-> FALSE] }   \* AttributeError

\* lines 149-154, 171-172: the search fails
SearchFails ==
    /\ pc = "search"
    /\ \E f \in SearchFailures :
        /\ netCalls' = netCalls + f.calls
        /\ IF f.caught
           THEN /\ pc' = "sleep"
                /\ outcome' = "failed"
                /\ out' = <<FailedExc>>
                /\ rowLog' = Append(rowLog, FailedExc)
                /\ exitStatus' = exitStatus
           ELSE /\ Crash
                /\ UNCHANGED <<outcome, rowLog>>
    /\ UNCHANGED <<csv, overwrite, image_file, pos, title, image_name,
                   candidates, idx, downloaded, disk, disk0, touched, paused,
                   run, prevEnd, prevOverwrite,
                   fetched, writer, payload>>

\* lines 149-155: the search request is answered by the response p
SearchResponds(payloads) ==
    /\ pc = "search"
    /\ \E p \in payloads :
        /\ payload' = p
        /\ candidates' = search_image_candidates(p)
        /\ netCalls' = netCalls + SearchCalls
        /\ IF search_image_candidates(p) = <<>>
           THEN /\ pc' = "loop"
                /\ outcome' = "failed"
                /\ out' = <<NoImage>>
                /\ rowLog' = Append(rowLog, NoImage)
                /\ UNCHANGED <<idx, downloaded>>
           ELSE /\ pc' = "fetch"
                /\ idx' = 1
                /\ downloaded' = FALSE
                /\ out' = <<>>
                /\ UNCHANGED <<outcome, rowLog>>
    /\ UNCHANGED <<csv, overwrite, image_file, pos, title, image_name, disk,
                   disk0, touched, paused, exitStatus, run, prevEnd,
                   prevOverwrite, fetched, writer>>

\* lines 149-155: the search returns up to maxn candidates
SearchReturns(maxn) == SearchResponds({PlainPayload(n) : n \in 0..maxn})

\* the loop steps over a candidate after a failure
NextCandidateSkipsOne(lines) ==
    IF idx + 2 <= Len(Attempts(candidates))
    THEN /\ idx' = idx + 2
         /\ pc' = "fetch"
         /\ out' = lines
         /\ UNCHANGED <<outcome, rowLog>>
    ELSE /\ idx' = idx
         /\ pc' = "sleep"
         /\ out' = Append(lines, FailedBlocked)
         /\ rowLog' = Append(rowLog, FailedBlocked)
         /\ outcome' = "failed"

\* lines 155, 169-170: the candidate at idx gave no image; take the next one,
\* or leave the loop with nothing downloaded
NextCandidate(lines) ==
    IF idx + 1 <= Len(Attempts(candidates))
    THEN /\ idx' = idx + 1
         /\ pc' = "fetch"
         /\ out' = lines
         /\ UNCHANGED <<outcome, rowLog>>
    ELSE /\ idx' = idx
         /\ pc' = "sleep"
         /\ out' = lines \o LoopEndLines(downloaded)
         /\ rowLog' = rowLog \o LoopEndLines(downloaded)
         /\ outcome' = "failed"

\* line 68: urlopen raises HTTPError or URLError (lines 167-168), or answers
\* and dest.open("wb") truncates the destination
UrlOpen ==
    /\ pc = "fetch"
    /\ netCalls' = netCalls + 1
    /\ fetched' = Append(fetched, Attempts(candidates)[idx])
    /\ \E answered \in BOOLEAN :
        IF answered
        THEN /\ disk' = Write(disk, image_name, Partial)
             /\ touched' = touched \cup {image_name}
             /\ writer' = Attempts(candidates)[idx]
             /\ pc' = "copy"
             /\ out' = <<>>
             /\ UNCHANGED <<idx, outcome, rowLog>>
        ELSE /\ NextCandidate(<<RetryNext>>)
             /\ UNCHANGED <<disk, touched, writer>>
    /\ UNCHANGED <<csv, overwrite, image_file, pos, title, image_name,
                   candidates, downloaded, disk0, paused, exitStatus, run,
                   prevEnd, prevOverwrite, payload>>

\* line 69: copyfileobj writes the whole body, or the read raises
\* (IncompleteRead, TimeoutError, ConnectionResetError: no URLError)
CopyBody ==
    /\ pc = "copy"
    /\ \/ \E f \in Formats \cup {"NONE"} :
            /\ disk' = Write(disk, image_name, Fetched(f))
            /\ pc' = "validate"
            /\ out' = <<>>
            /\ UNCHANGED exitStatus
       \/ /\ Crash
          /\ UNCHANGED disk
    /\ UNCHANGED <<csv, overwrite, image_file, pos, title, image_name,
                   candidates, idx, downloaded, disk0, rowLog, netCalls,
                   touched, outcome, paused, run, prevEnd, prevOverwrite,
                   fetched, writer, payload>>

\* lines 159-166: validate the file; keep it, or delete it and go on
Validate ==
    /\ pc = "validate"
    /\ \E saveOk \in BOOLEAN :
        LET v == validate_and_convert_image(disk[image_name], image_name, saveOk)
        IN  IF v.valid
            THEN /\ disk' = Write(disk, image_name, v.content)
                 /\ downloaded' = TRUE
                 /\ pc' = "sleep"
                 /\ outcome' = "done"
                 /\ out' = Append(v.lines, Downloaded) \o LoopEndLines(TRUE)
                 /\ rowLog' = Append(rowLog, Downloaded) \o LoopEndLines(TRUE)
                 /\ UNCHANGED idx
            ELSE /\ disk' = Unlink(disk, image_name)
                 /\ NextCandidate(Append(v.lines, InvalidNext))
                 /\ UNCHANGED downloaded
    /\ touched' = touched \cup {image_name}
    /\ UNCHANGED <<csv, overwrite, image_file, pos, title, image_name,
                   candidates, disk0, netCalls, paused, exitStatus, run,
                   prevEnd, prevOverwrite,
                   fetched, writer, payload>>

\* line 173: time.sleep(args.sleep)
Sleep ==
    /\ pc = "sleep"
    /\ pc' = "loop"
    /\ paused' = TRUE
    /\ UNCHANGED <<csv, overwrite, image_file, pos, title, image_name,
                   candidates, idx, downloaded, disk, disk0, out, rowLog,
                   netCalls, touched, outcome, exitStatus, run, prevEnd,
                   prevOverwrite,
                   fetched, writer, payload>>

Next ==
    \/ NextRow
    \/ LoopEnd
    \/ SearchFails
    \/ SearchReturns(MaxCands)
    \/ UrlOpen
    \/ CopyBody
    \/ Validate
    \/ Sleep

Spec == Init /\ [][Next]_vars

(* ------------------------ termination and restart ---------------------- *)

\* the process is terminated from outside, wherever it is
Kill ==
    /\ pc \in Running
    /\ pc' = "killed"
    /\ exitStatus' = <<143>>
    /\ UNCHANGED <<csv, overwrite, image_file, pos, title, image_name,
                   candidates, idx, downloaded, disk, disk0, out, rowLog,
                   netCalls, touched, outcome, paused, run, prevEnd,
                   prevOverwrite,
                   fetched, writer, payload>>

\* the program is started again over the same CSV and the same directory
Restart ==
    /\ pc \in Ended
    /\ run < MaxRuns
    /\ run' = run + 1
    /\ prevEnd' = pc
    /\ prevOverwrite' = overwrite
    /\ overwrite' \in BOOLEAN
    /\ disk0' = disk
    /\ pos' = 0
    /\ pc' = "loop"
    /\ title' = <<>>
    /\ image_name' = <<>>
    /\ candidates' = <<>>
    /\ idx' = 0
    /\ downloaded' = FALSE
    /\ out' = <<>>
    /\ rowLog' = <<>>
    /\ netCalls' = 0
    /\ touched' = {}
    /\ outcome' = "none"
    /\ paused' = FALSE
    /\ exitStatus' = <<>>
    /\ fetched' = <<>>
    /\ writer' = 0
    /\ payload' = NoResponse
    /\ UNCHANGED <<csv, image_file, disk>>

\* inputs of the restart specification: rows that reach the search, with
\* distinct destinations and with a shared one
LineA == << <<"tea", WS>>, <<WS, "a", ".jpg">> >>
LineB == << <<"mug">>, NameB >>
RestartInputs == { <<LineA, LineB>>, <<LineA, LineA>> }

InitRestart ==
    \E lines \in RestartInputs, ow \in BOOLEAN,
       d \in [FileNames -> {Absent, PreExisting}] :
        Start(lines, ow, None, d)

NextRestart ==
    \/ NextRow
    \/ LoopEnd
    \/ SearchFails
    \/ SearchReturns(MaxCandsRestart)
    \/ UrlOpen
    \/ CopyBody
    \/ Validate
    \/ Sleep
    \/ Kill
    \/ Restart

SpecRestart == InitRestart /\ [][NextRestart]_vars

(* ------------------- one row, long candidate lists --------------------- *)

InitCap ==
    \E ow \in BOOLEAN, d \in [FileNames -> {Absent, PreExisting}] :
        Start(<<LineA>>, ow, None, d)

NextCap ==
    \/ NextRow
    \/ LoopEnd
    \/ SearchFails
    \/ SearchReturns(MaxCandsCap)
    \/ UrlOpen
    \/ CopyBody
    \/ Validate
    \/ Sleep

SpecCap == InitCap /\ [][NextCap]_vars

(* --------------------- one row, any search response -------------------- *)

InitResolver ==
    Start(<<LineA>>, FALSE, None, [n \in FileNames |-> Absent])

NextResolver ==
    \/ NextRow
    \/ SearchResponds(Payloads)
    \/ LoopEnd

SpecResolver == InitResolver /\ [][NextResolver]_vars

(* ---------------------- one row, any file extension -------------------- *)

\* destination names: the JPEG spellings, PNG, an extension that is no format
\* name of the image library, and no extension
ValidatorNames ==
    { <<"a", ".jpg">>, <<"a", ".JPG">>, <<"a", ".jpeg">>, <<"b", ".png">>,
      <<"c", ".tif">>, <<"d">> }

InitValidator ==
    \E name \in ValidatorNames, ow \in BOOLEAN :
        \E d \in [{name} -> {Absent, PreExisting}] :
            Start(<< << <<"tea">>, name >> >>, ow, None, d)

SpecValidator == InitValidator /\ [][Next]_vars

(* ------------------------------ the claims ----------------------------- *)

\* the row the driver was last given is over: it sleeps, or is back at the loop
RowOver == pc \in {"loop", "sleep"}

\* the destination of the row the loop reads next, <<>> if it has none
NextDest ==
    IF pos < Len(Rows) /\ ~Rows[pos + 1].imageFile.none
    THEN Strip(Rows[pos + 1].imageFile.s)
    ELSE <<>>

\* the row the loop reads next has a blank (empty, whitespace-only, missing)
\* title or imageFile
NextRowBlank ==
    /\ pos < Len(Rows)
    /\ \/ Rows[pos + 1].title.none
       \/ Rows[pos + 1].imageFile.none
       \/ Strip(Rows[pos + 1].title.s) = <<>>
       \/ Strip(Rows[pos + 1].imageFile.s) = <<>>

\* C1: once a row is over, a file at its destination is an image the
\* validator accepted while this row was processed, or the untouched file of
\* a row skipped because overwrite was not requested.
C1_FileLeftIsValidatedOrProtected ==
    (RowOver /\ outcome \in {"done", "failed", "skip_existing"}
        /\ Exists(disk, image_name))
    => \/ outcome = "done" /\ disk[image_name].ok /\ image_name \in touched
       \/ outcome = "skip_existing" /\ ~overwrite /\ touched = {}

\* C2: a search that does not return a candidate list fails the row only:
\* the failure is logged, the driver pauses and goes on; the run does not end.
C2_ResolutionFailureFailsRowOnly ==
    [][(pc = "search" /\ pc' \notin {"fetch", "loop"})
        => (pc' = "sleep" /\ outcome' = "failed" /\ out' = <<FailedExc>>)]_vars

\* C3: a candidate fetch that fails, at connecting or while the body is read,
\* is logged as a retry and the driver goes on with the next candidate or,
\* after the last one, with the end of the row.
C3_FetchFailureTriesNextCandidate ==
    [][(pc \in {"fetch", "copy"} /\ pc' \notin {"copy", "validate"})
        => (pc' \in {"fetch", "sleep"} /\ out'[1] = RetryNext)]_vars

\* C4: a run that has ended has read every row and exited with status 0.
C4_RunEndsWithStatusZero ==
    pc \in Ended => (pc = "exited" /\ exitStatus = <<0>> /\ pos = Len(Rows))

\* C5: when the driver is back at the loop after a row that ended DONE or
\* FAILED, it has paused.
C5_PauseAfterDoneOrFailed ==
    (pc = "loop" /\ outcome \in {"done", "failed"}) => paused

\* C6: when the processing of a row has ended with candidates attempted and
\* none accepted, the row is logged 'Failed (all candidates blocked)' and no
\* file is at its destination.
C6_AllBlockedLeavesNoFile ==
    (pc \in {"loop", "sleep", "crashed"} /\ netCalls > SearchCalls
        /\ outcome # "done")
    => (rowLog = <<FailedBlocked>> /\ ~Exists(disk, image_name))

\* C7 as stated: a second run with overwrite=false, after a first complete
\* run with overwrite=false over the same input, makes no network call and
\* leaves the directory as it found it (looked at while the second run has
\* met no uncaught exception).
C7_SecondRunDoesNothing ==
    (run > 1 /\ prevEnd = "exited" /\ ~prevOverwrite /\ ~overwrite
        /\ pc # "crashed")
    => (netCalls = 0 /\ disk = disk0)

\* C7 amended: a run with overwrite=false that follows a complete run with
\* overwrite=false makes no network call for a row whose destination existed
\* when the run started, and leaves every file that existed then unchanged.
C7_SecondRunKeepsExistingFiles ==
    (run > 1 /\ prevEnd = "exited" /\ ~prevOverwrite /\ ~overwrite)
    => /\ \A n \in FileNames : Exists(disk0, n) => disk[n] = disk0[n]
       /\ (outcome # "none" /\ image_name \in FileNames
            /\ Exists(disk0, image_name)) => netCalls = 0

C7_Witness ==
    /\ run > 1 /\ prevEnd = "exited" /\ ~prevOverwrite /\ ~overwrite
    /\ outcome = "skip_existing"
    /\ disk0[image_name].ok
    /\ \E n \in FileNames : ~Exists(disk0, n)

\* C8: in a run with overwrite=false that follows a terminated run, the files
\* the earlier run had validated are unchanged, and a file written by the
\* program that a row is skipped for is one the validator accepted.
C8_RestartSkipsOnlyValidFiles ==
    (run > 1 /\ prevEnd = "killed" /\ ~overwrite)
    => /\ \A n \in FileNames : disk0[n].ok => disk[n] = disk0[n]
       /\ (outcome = "skip_existing" /\ disk[image_name].kind # "pre")
            => disk[image_name].ok

\* C9: a row with a blank title or imageFile is logged as skipped, without a
\* network call, and the loop goes on with the next row.
C9_BlankRowSkipped ==
    [][(pc = "loop" /\ NextRowBlank)
        => (pc' = "loop" /\ pos' = pos + 1 /\ out' = <<SkipMissing>>
            /\ netCalls' = 0 /\ disk' = disk)]_vars

\* C10: a row reached while its destination exists and overwrite is false is
\* over in the step that reads it: the driver starts no search and no fetch
\* for it, and the directory is as before.
C10_ExistingNotFetched ==
    [][(pc = "loop" /\ ~overwrite /\ NextDest \in FileNames
            /\ Exists(disk, NextDest))
        => (pc' = "loop" /\ pos' = pos + 1 /\ netCalls' = 0 /\ disk' = disk)]_vars

C10_Witness ==
    /\ outcome = "skip_existing"
    /\ ~overwrite
    /\ Exists(disk, image_name)
    /\ netCalls = 0
    /\ pc = "loop"


\* C11: the URLs requested for a row are at most 10, and they are the first
\* candidates of the list the search returned, in its order.
C11_AtMostFirstTen ==
    /\ Len(fetched) <= 10
    /\ Len(fetched) <= Len(candidates)
    /\ \A i \in 1..Len(fetched) : fetched[i] = candidates[i]

C11_Witness ==
    /\ Len(candidates) > 10
    /\ Len(fetched) = 10
    /\ pc = "sleep"
    /\ outcome = "failed"


\* C12: the URLs requested are the candidates in list order, each once; the
\* step in which the validator accepts the file ends the row DONE with
\* 'Downloaded' logged; the file then on disk is the body of the candidate
\* requested last, and until the next row is read nothing more is requested
\* and the directory does not change.
C12_FirstSuccessEndsRow ==
    /\ [](/\ Len(fetched) <= Len(candidates)
          /\ \A i \in 1..Len(fetched) : fetched[i] = candidates[i]
          /\ \A i, j \in 1..Len(fetched) : fetched[i] = fetched[j] => i = j
          /\ outcome = "done"
                => /\ fetched # <<>>
                   /\ writer = fetched[Len(fetched)]
                   /\ disk[image_name].ok
                   /\ rowLog = <<Downloaded>>)
    /\ [][/\ (pc = "validate" /\ disk'[image_name].ok)
                => (outcome' = "done" /\ pc' = "sleep")
          /\ (outcome = "done" /\ pos' = pos)
                => (fetched' = fetched /\ disk' = disk /\ outcome' = "done")]_vars

C12_Witness ==
    /\ outcome = "done"
    /\ fetched = <<1, 2, 3>>
    /\ writer = 3
    /\ netCalls = SearchCalls + 3
    /\ ~(image_name \in touched /\ disk[image_name].kind = "partial")
    /\ pc = "sleep"


\* C13: when the last step printed 'Invalid image, trying next candidate',
\* no file is at the destination: the deletion comes before the next
\* candidate is requested and before the row ends.
C13_InvalidFileDeleted ==
    (\E i \in 1..Len(out) : out[i] = InvalidNext)
    => ~Exists(disk, image_name)

C13_Witness ==
    /\ out = <<InvalidFile, InvalidNext>>
    /\ pc = "fetch"
    /\ idx = 2
    /\ image_name \in touched
    /\ ~Exists(disk, image_name)
    /\ Exists(disk0, image_name)


\* the fields of the entries in the order the response gives them: entry 1's
\* image, entry 1's thumbnail, entry 2's image, ...
FieldsInOrder(items) ==
    [j \in 1..(2 * Len(items)) |->
        IF j % 2 = 1 THEN items[(j + 1) \div 2].image
        ELSE items[j \div 2].thumbnail]

IsUrl(f) == f.k = "str" /\ f.u > 0

\* the URLs among a sequence of fields, in its order
RECURSIVE UrlsOf(_)
UrlsOf(fs) ==
    IF fs = <<>> THEN <<>>
    ELSE IF IsUrl(fs[Len(fs)])
    THEN Append(UrlsOf(SubSeq(fs, 1, Len(fs) - 1)), fs[Len(fs)].u)
    ELSE UrlsOf(SubSeq(fs, 1, Len(fs) - 1))

\* C14: once the search has been answered, the candidate list is the URLs of
\* the response's entries in their order, image before thumbnail within an
\* entry; results absent or null gives the empty list and fails the row.
C14_ResolverOrder ==
    payload # NoResponse
    => /\ payload.k = "list"
            => candidates = UrlsOf(FieldsInOrder(payload.items))
       /\ payload.k \in {"absent", "null"}
            => (candidates = <<>> /\ outcome = "failed" /\ rowLog = <<NoImage>>)

C14_Witness ==
    /\ payload = ResultsList(<< [image |-> Url(1), thumbnail |-> Url(2)],
                                [image |-> Url(3), thumbnail |-> Missing] >>)
    /\ candidates = <<1, 2, 3>>
    /\ pc = "fetch"


\* the format an extension implies: the extension in upper case, the JPG
\* spelling standing for JPEG; "" without an extension
ImpliedFormat(name) ==
    LET e == name[Len(name)]
    IN  IF e \in {".jpg", ".JPG", ".jpeg"} THEN "JPEG"
        ELSE IF e = ".png" THEN "PNG"
        ELSE IF e = ".tif" THEN "TIF"
        ELSE ""

\* C15: in the step that validates the file at the destination: a body that
\* does not decode is invalid; a body whose format is the one the extension
\* implies is valid and left as it is; any other body is valid only
\* re-encoded to the implied format; so a file found valid has the implied
\* format.
C15_ValidatorVerdict ==
    [][pc = "validate" =>
        LET c == disk[image_name]
            c2 == disk'[image_name]
            valid == outcome' = "done"
        IN  /\ c.fmt = "NONE" => ~valid
            /\ (c.fmt # "NONE" /\ c.fmt = ImpliedFormat(image_name))
                => (valid /\ c2.fmt = c.fmt /\ c2.kind = c.kind)
            /\ (valid /\ c.fmt # ImpliedFormat(image_name))
                => c2.kind = "converted"
            /\ valid => (c2.ok /\ c2.fmt = ImpliedFormat(image_name))
            /\ ~valid => pc' # "crashed"]_vars

C15_Witness ==
    /\ image_name = <<"a", ".jpg">>
    /\ disk[image_name] = Reencoded("JPEG")
    /\ out = <<WarnConvert, Converted, Downloaded>>
    /\ outcome = "done"


\* C16: the destination directory is append-only over a run: a path that held
\* a file when the run began holds a file whenever a row is over.
C16_DirectoryAppendOnly ==
    (RowOver /\ pc # "crashed")
        => \A n \in DOMAIN disk : Exists(disk0, n) => Exists(disk, n)


\* C17 as stated: every line the driver emits goes to the diagnostic stream;
\* nothing goes to the primary stream.
C17_AllLinesToStderr ==
    \A i \in 1..Len(out) : out[i].stream = "stderr"

\* C17 amended: the lines of the two successful outcomes, 'Skip existing' and
\* 'Downloaded', go to the primary stream; every other line (skipped blank,
\* retry, invalid, failed, warnings, traceback) goes to the diagnostic stream.
C17_OnlySuccessLinesToStdout ==
    /\ \A i \in 1..Len(out) :
        /\ out[i].stream \in {"stdout", "stderr"}
        /\ out[i].stream = "stdout"
            <=> out[i].text \in {"Skip existing", "Downloaded"}
    /\ (pc = "sleep" /\ outcome = "done")
        => (out # <<>> /\ out[Len(out)].stream = "stdout")
    /\ outcome = "skip_existing" => (out # <<>> /\ out[1].stream = "stdout")

C17_Witness ==
    /\ outcome = "done"
    /\ Len(out) = 3
    /\ out[1].stream = "stderr"
    /\ out[3] = [text |-> "Downloaded", stream |-> "stdout"]


\* C18: with a single-file filter configured, the step that reads a row whose
\* imageFile differs from the filter value makes no network call, leaves every
\* file as it is and takes no pause; a row that has an imageFile field goes
\* straight back to the row loop for the next row.
C18_FilteredRowSkipped ==
    [][(/\ pc = "loop"
        /\ pos < Len(Rows)
        /\ ~image_file.none
        /\ image_file.s # <<>>
        /\ \/ Rows[pos + 1].imageFile.none
           \/ Strip(Rows[pos + 1].imageFile.s) # image_file.s)
       => /\ netCalls' = 0
          /\ disk' = disk
          /\ ~paused'
          /\ pc' \in {"loop", "crashed"}
          /\ ~Rows[pos + 1].imageFile.none
              => /\ pc' = "loop"
                 /\ pos' = pos + 1
                 /\ outcome' \in {"skip_filter", "skip_blank"}]_vars

C18_Witness ==
    /\ outcome = "skip_filter"
    /\ image_file = Str(NameA)
    /\ image_name = NameB
    /\ pc = "loop"
    /\ pos = 1
    /\ netCalls = 0
    /\ ~paused
    /\ disk = disk0
    /\ out = <<>>


\* C19: processing a row changes no file other than the row's own destination;
\* a row that is skipped, or whose candidate resolution throws or yields no
\* candidate, changes no file at all: the directory changes only in the fetch
\* steps, which follow a search that returned a non-empty list.
C19_OnlyOwnDestinationTouched ==
    /\ [](/\ touched \subseteq {image_name}
          /\ (\/ outcome \in {"skip_blank", "skip_filter", "skip_existing"}
              \/ pc = "search"
              \/ outcome = "failed" /\ rowLog \in {<<NoImage>>, <<FailedExc>>}
              \/ pc = "crashed" /\ netCalls <= SearchCalls)
             => touched = {})
    /\ [][/\ \A n \in DOMAIN disk : n # image_name => disk'[n] = disk[n]
          /\ pc \in {"loop", "search"} => disk' = disk
          /\ disk' # disk => /\ pc \in {"fetch", "copy", "validate"}
                             /\ candidates # <<>>
                             /\ netCalls >= SearchCalls]_vars

C19_Witness ==
    /\ image_name = NameB
    /\ touched = {NameB}
    /\ disk[NameB].ok
    /\ disk[NameA] = PreExisting
    /\ disk0[NameB] = Absent
    /\ outcome = "done"


\* C20: a row that was searched and is over has exactly one terminal line: a
\* single 'Downloaded' or a single failure line, 'Downloaded' exactly when the
\* row is done; and 'Downloaded' is printed only by the step in which the
\* validation of the destination file returned valid.
C20_OneTerminalLine ==
    /\ []((RowOver /\ outcome \in {"done", "failed"})
            => /\ Len(rowLog) = 1
               /\ rowLog[1] \in {Downloaded, NoImage, FailedBlocked, FailedExc}
               /\ rowLog[1] = Downloaded <=> outcome = "done")
    /\ [][(/\ rowLog' # rowLog
           /\ \E i \in 1..Len(rowLog') : rowLog'[i] = Downloaded)
          => /\ pc = "validate"
             /\ disk'[image_name].ok
             /\ out' # <<>>
             /\ out'[Len(out')] = Downloaded]_vars

C20_Witness ==
    /\ pc = "loop"
    /\ outcome = "done"
    /\ rowLog = <<Downloaded>>
    /\ Len(fetched) = 2
    /\ paused

====
